---- MODULE Spec2Model ----
(***************************************************************************)
(* Model of figma-api.py: the retrying GET primitive figma_api_get, the    *)
(* credential lookup get_access_token, and the export functions built on   *)
(* them.                                                                   *)
(*                                                                         *)
(* The network is the environment: each HTTP attempt receives one response *)
(* (or raises) chosen from Responses.  SpecFetch runs one figma_api_get    *)
(* call attempt by attempt (SpecFetchFair adds fairness); Spec runs the     *)
(* script's entry points, where a whole figma_api_get call is one step of  *)
(* the calling export function; SpecVariants runs the three export         *)
(* functions that read the team_ids file, SpecTimed lets the clock advance *)
(* during them; SpecParse and SpecPages run one call of                    *)
(* get_teams_from_file and of get_pages.                                   *)
(***************************************************************************)
EXTENDS Integers, Sequences, FiniteSets, TLC

VARIABLES
    env_token,      \* FIGMA_ACCESS_TOKEN, read once at import
    call,           \* the figma_api_get call in progress (SpecFetch)
    pc,             \* where the run stands: the function entered, or its loop
    output,         \* the string the entered function returned
    team_ids_file,  \* the file "team_ids": whether it exists, and its lines
    output_dir,     \* whether os.makedirs has made the output directory
    disk,           \* the files written, in the order of the writes
    io_faults,      \* number of I/O calls that raised so far
    http_requested, \* whether requests.get has been called in this run
    team_ids,       \* the IDs read from the file
    i,              \* number of teams the loop has finished
    projects,       \* the projects of the team being processed
    j,              \* number of its projects the inner loop has finished
    team_projects_with_files,
    team_response,  \* what the last get_team_projects returned
    files_response, \* what the last get_files returned
    consolidated_data,
    results,        \* the summary of the per-team exports
    saved_files,    \* the paths of the files they wrote
    total_projects,
    total_files,
    clock,          \* int(time.time()): the second the run is in
    pages_response, \* what figma_api_get returned to get_pages
    pages           \* the list get_pages returned

net_vars == <<env_token, call>>

fs_vars == <<team_ids_file, output_dir, disk, io_faults>>

loop_vars == <<team_ids, i, projects, j, team_projects_with_files,
               team_response, files_response>>

files_vars == <<results, saved_files, total_projects, total_files>>

page_vars == <<pages_response, pages>>

program_vars == <<clock, page_vars, pc, output, fs_vars, http_requested, loop_vars, consolidated_data,
                  files_vars>>

vars == <<net_vars, program_vars>>

(***************************************************************************)
(* Bounds of the model                                                     *)
(***************************************************************************)
\* largest max_retries argument tried in SpecFetch
MaxRetriesBound == 3
\* longest team_ids file
MaxLines == 2
\* most I/O calls that fail in one run
MaxIOFaults == 1
\* seconds the clock may advance during a run of SpecTimed
MaxClock == 1
\* longest team_ids file read in SpecParse
MaxParseLines == 4
\* most top-level nodes of a document in SpecPages
MaxChildren == 3

(***************************************************************************)
(* Program constants                                                       *)
(***************************************************************************)
\* def figma_api_get(..., max_retries: int = 3)
DefaultMaxRetries == 3
\* resp.headers.get('Retry-After', 60)
DefaultRetryAfter == 60
\* time.sleep(2) in the except branch
TransportPause == 2

(***************************************************************************)
(* Text: header values are character sequences, so that int() is a real    *)
(* conversion                                                              *)
(***************************************************************************)
Digits == <<"0", "1", "2", "3", "4", "5", "6", "7", "8", "9">>

IsDigit(c) == \E d \in 1..Len(Digits) : Digits[d] = c

DigitValue(c) == (CHOOSE d \in 1..Len(Digits) : Digits[d] = c) - 1

RECURSIVE DigitsValue(_, _)
\* value of a run of decimal digits, most significant first
DigitsValue(cs, acc) ==
    IF cs = <<>> THEN acc
    ELSE DigitsValue(Tail(cs), 10 * acc + DigitValue(Head(cs)))

\* Python int(str): optional sign, then one or more decimal digits; anything
\* else raises ValueError
ParseInt(cs) ==
    LET signed == cs # <<>> /\ Head(cs) \in {"-", "+"}
        body   == IF signed THEN Tail(cs) ELSE cs
        valid  == body # <<>> /\ \A k \in 1..Len(body) : IsDigit(body[k])
    IN  IF ~valid THEN [ok |-> FALSE, value |-> 0]
        ELSE [ok |-> TRUE,
              value |-> IF signed /\ Head(cs) = "-"
                        THEN 0 - DigitsValue(body, 0)
                        ELSE DigitsValue(body, 0)]

Whitespace == {" ", "\t", "\n", "\r"}

RECURSIVE LStrip(_)
LStrip(cs) ==
    IF cs # <<>> /\ Head(cs) \in Whitespace THEN LStrip(Tail(cs)) ELSE cs

RECURSIVE RStrip(_)
RStrip(cs) ==
    IF cs # <<>> /\ cs[Len(cs)] \in Whitespace
    THEN RStrip(SubSeq(cs, 1, Len(cs) - 1))
    ELSE cs

\* Python str.strip()
Strip(cs) == RStrip(LStrip(cs))

\* Python str.startswith, for a one-character prefix
StartsWith(cs, ch) == cs # <<>> /\ Head(cs) = ch

\* resp.headers.get('Retry-After'): absent, or the header's text
NoHeader == [present |-> FALSE, text |-> <<>>]

Header(cs) == [present |-> TRUE, text |-> cs]

\* Retry-After headers the server sends with a 429
RetryAfterValues ==
    { NoHeader, Header(<<"0">>), Header(<<"7">>), Header(<<"1", "2">>),
      Header(<<"-", "1">>), Header(<<"s", "o", "o", "n">>) }

(***************************************************************************)
(* JSON bodies, as far as the script reads them: the top-level list a body *)
(* carries ("projects" or "files"), or no such key                         *)
(***************************************************************************)
NoJson == [kind |-> "none", items |-> <<>>]

Item(id, name) == [id |-> id, name |-> name]

\* bodies used when figma_api_get is exercised on its own
SampleDocs ==
    { [kind |-> "user", items |-> <<>>],
      [kind |-> "projects", items |-> <<Item("p1", "Alpha")>>] }

(***************************************************************************)
(* What one requests.get can come back with                                *)
(***************************************************************************)
NoResponse ==
    [kind |-> "none", status |-> 0, json_ok |-> FALSE, json |-> NoJson,
     text |-> "", retry_after |-> NoHeader, exc |-> ""]

HttpResponse(status, json_ok, json, text, retry_after) ==
    [kind |-> "http", status |-> status, json_ok |-> json_ok, json |-> json,
     text |-> text, retry_after |-> retry_after, exc |-> ""]

\* requests.get raised (connection error, timeout, ...): str(e) is exc
Raised(msg) ==
    [kind |-> "exception", status |-> 0, json_ok |-> FALSE, json |-> NoJson,
     text |-> "", retry_after |-> NoHeader, exc |-> msg]

OkResponses(docs) == { HttpResponse(200, TRUE, d, "{...}", NoHeader) : d \in docs }

\* a 200 whose body is not JSON (a proxy's HTML page, a cut-off body)
UndecodableResponses == { HttpResponse(200, FALSE, NoJson, "<html>", NoHeader) }

RateLimitResponses ==
    { HttpResponse(429, FALSE, NoJson, "Rate limit exceeded", h) : h \in RetryAfterValues }

ErrorResponses ==
    { HttpResponse(403, FALSE, NoJson, "Forbidden", NoHeader),
      HttpResponse(404, FALSE, NoJson, "Not found", NoHeader),
      HttpResponse(500, FALSE, NoJson, "Not found", NoHeader) }

TransportFailures == { Raised("Connection refused"), Raised("Read timed out") }

Responses(docs) ==
    OkResponses(docs) \cup UndecodableResponses \cup RateLimitResponses
        \cup ErrorResponses \cup TransportFailures

\* str(e) of the exceptions raised inside the try block by the script's own calls
JSONDecodeErrorText == "Expecting value: line 1 column 1 (char 0)"
IntValueErrorText == "invalid literal for int() with base 10"
SleepValueErrorText == "sleep length must be non-negative"

(***************************************************************************)
(* get_access_token                                                        *)
(***************************************************************************)
\* what the operator types at the prompt
PromptInputs == { <<>>, <<" ", " ">>, <<" ", "k", "2", " ">> }

\* FIGMA_ACCESS_TOKEN = os.environ.get("FIGMA_ACCESS_TOKEN", None); <<>> stands
\* for None and for the empty string, which `if not token` treats alike
EnvTokens == { <<>>, <<"k", "1">> }

CredentialErrorText == "Figma access token is required to use this script."

\* a get_access_token that prompts whatever the environment holds
get_access_token_IgnoreEnv(env, typed) ==
    IF Strip(typed) # <<>>
    THEN [raised |-> FALSE, token |-> Strip(typed), prompted |-> TRUE]
    ELSE [raised |-> TRUE, token |-> <<>>, prompted |-> TRUE]

get_access_token(env, typed) ==
    IF env # <<>> THEN [raised |-> FALSE, token |-> env, prompted |-> FALSE]
    ELSE IF Strip(typed) # <<>>
         THEN [raised |-> FALSE, token |-> Strip(typed), prompted |-> TRUE]
         ELSE [raised |-> TRUE, token |-> <<>>, prompted |-> TRUE]

(***************************************************************************)
(* figma_api_get: the state of one call                                    *)
(***************************************************************************)
NoResult == [error |-> FALSE, status_code |-> 0, message |-> "", data |-> NoJson]

\* return response_data
Success(doc) == [error |-> FALSE, status_code |-> 200, message |-> "", data |-> doc]

\* return {"error": True, "status_code": ..., "message": ...}
ErrorResult(status_code, message) ==
    [error |-> TRUE, status_code |-> status_code, message |-> message, data |-> NoJson]

MaxRetriesExceededText == "Max retries exceeded"

\* requests.get(url, headers=headers, params=params) and what it came back with
GetEvent(endpoint, token, attempt, resp) ==
    [ev |-> "get", endpoint |-> endpoint, token |-> token, attempt |-> attempt,
     secs |-> 0, resp |-> resp]

\* time.sleep(secs) during iteration attempt
SleepEvent(attempt, secs) ==
    [ev |-> "sleep", endpoint |-> <<>>, token |-> <<>>, attempt |-> attempt,
     secs |-> secs, resp |-> NoResponse]

IdleCall ==
    [phase |-> "idle", endpoint |-> <<>>, max_retries |-> 0, token |-> <<>>,
     attempt |-> 0, trace |-> <<>>, result |-> NoResult]

\* the call as it stands on entry, before get_access_token
NewCall(endpoint, max_retries) ==
    [IdleCall EXCEPT !.phase = "token", !.endpoint = endpoint,
                     !.max_retries = max_retries]

Return(c, result) == [c EXCEPT !.phase = "returned", !.result = result]

\* the for statement takes the next value of range(max_retries), or the loop
\* ends and the function returns the generic error
\* a loop that allows one attempt more than max_retries
NextAttempt_OneMore(c, n) ==
    IF n <= c.max_retries
    THEN [c EXCEPT !.phase = "loop", !.attempt = n]
    ELSE Return([c EXCEPT !.attempt = n], ErrorResult(0, MaxRetriesExceededText))

NextAttempt(c, n) ==
    IF n < c.max_retries
    THEN [c EXCEPT !.phase = "loop", !.attempt = n]
    ELSE Return([c EXCEPT !.attempt = n], ErrorResult(0, MaxRetriesExceededText))

\* lines 97-107: the token, then the first iteration
Enter(c, tok) ==
    IF tok.raised THEN [c EXCEPT !.phase = "raised"]
    ELSE NextAttempt([c EXCEPT !.token = tok.token], 0)

Log(c, e) == [c EXCEPT !.trace = Append(@, e)]

\* mutant: the retry test is off by one, so the last failure is not reported
OnException_OffByOne(c, msg) ==
    IF c.attempt < c.max_retries
    THEN NextAttempt(Log(c, SleepEvent(c.attempt, TransportPause)), c.attempt + 1)
    ELSE Return(c, ErrorResult(0, msg))

\* mutant: the last failure is reported without the exception's text
OnException_TextDropped(c, msg) ==
    IF c.attempt < c.max_retries - 1
    THEN NextAttempt(Log(c, SleepEvent(c.attempt, TransportPause)), c.attempt + 1)
    ELSE Return(c, ErrorResult(0, MaxRetriesExceededText))

\* except Exception as e
OnException(c, msg) ==
    IF c.attempt < c.max_retries - 1
    THEN NextAttempt(Log(c, SleepEvent(c.attempt, TransportPause)), c.attempt + 1)
    ELSE Return(c, ErrorResult(0, msg))

\* mutant: the header is ignored and the default is always slept
OnRateLimit_IgnoreHeader(c, resp) ==
    NextAttempt(Log(c, SleepEvent(c.attempt, DefaultRetryAfter)), c.attempt + 1)

\* mutant: a while-style retry that repeats the attempt after a 429
OnRateLimit_SameAttempt(c, resp) ==
    LET parsed == IF resp.retry_after.present
                  THEN ParseInt(resp.retry_after.text)
                  ELSE [ok |-> TRUE, value |-> DefaultRetryAfter]
    IN  IF ~parsed.ok THEN OnException(c, IntValueErrorText)
        ELSE IF parsed.value < 0 THEN OnException(c, SleepValueErrorText)
        ELSE NextAttempt(Log(c, SleepEvent(c.attempt, parsed.value)), c.attempt)

\* elif resp.status_code == 429
OnRateLimit(c, resp) ==
    LET parsed == IF resp.retry_after.present
                  THEN ParseInt(resp.retry_after.text)
                  ELSE [ok |-> TRUE, value |-> DefaultRetryAfter]
    IN  IF ~parsed.ok THEN OnException(c, IntValueErrorText)
        ELSE IF parsed.value < 0 THEN OnException(c, SleepValueErrorText)
        ELSE NextAttempt(Log(c, SleepEvent(c.attempt, parsed.value)), c.attempt + 1)

\* mutant: server errors (5xx) are retried like transport failures
Attempt_Retry5xx(c, resp) ==
    LET got == Log(c, GetEvent(c.endpoint, c.token, c.attempt, resp))
    IN  IF resp.kind = "exception" THEN OnException(got, resp.exc)
        ELSE IF resp.status = 200
             THEN IF resp.json_ok THEN Return(got, Success(resp.json))
                  ELSE OnException(got, JSONDecodeErrorText)
        ELSE IF resp.status = 429 THEN OnRateLimit(got, resp)
        ELSE IF resp.status >= 500 THEN OnException(got, resp.text)
        ELSE Return(got, ErrorResult(resp.status, resp.text))

\* mutant: the 200 branch lacks its return and the loop goes on
Attempt_OkFallsThrough(c, resp) ==
    LET got == Log(c, GetEvent(c.endpoint, c.token, c.attempt, resp))
    IN  IF resp.kind = "exception" THEN OnException(got, resp.exc)
        ELSE IF resp.status = 200
             THEN IF resp.json_ok THEN NextAttempt(got, c.attempt + 1)
                  ELSE OnException(got, JSONDecodeErrorText)
        ELSE IF resp.status = 429 THEN OnRateLimit(got, resp)
        ELSE Return(got, ErrorResult(resp.status, resp.text))

\* one iteration of the for loop: the request, and what the code does with
\* what came back
Attempt(c, resp) ==
    LET got == Log(c, GetEvent(c.endpoint, c.token, c.attempt, resp))
    IN  IF resp.kind = "exception" THEN OnException(got, resp.exc)
        ELSE IF resp.status = 200
             THEN IF resp.json_ok THEN Return(got, Success(resp.json))
                  ELSE OnException(got, JSONDecodeErrorText)
        ELSE IF resp.status = 429 THEN OnRateLimit(got, resp)
        ELSE Return(got, ErrorResult(resp.status, resp.text))

(***************************************************************************)
(* A whole call of figma_api_get, given what each attempt comes back with  *)
(***************************************************************************)
RECURSIVE Run(_, _)
\* the for loop, until the function returns
Run(c, script) ==
    IF c.phase # "loop" \/ script = <<>> THEN c
    ELSE Run(Attempt(c, Head(script)), Tail(script))

figma_api_get(endpoint, max_retries, tok, script) ==
    Run(Enter(NewCall(endpoint, max_retries), tok), script)

\* what the caller sees of a call: the returned dict, and the requests it cost
Outcome(c) ==
    [result   |-> c.result,
     requests |-> Cardinality({ k \in DOMAIN c.trace : c.trace[k].ev = "get" })]

(***************************************************************************)
(* The server the export functions run against                             *)
(***************************************************************************)
NoName == "<no name>"

P1 == Item("p1", "Alpha")
P2 == Item("p2", NoName)
F1 == Item("f1", "Home")
F2 == Item("f2", "Icons")

\* bodies of teams/{team_id}/projects: a "projects" list, or a body without
\* that key
ProjectDocs ==
    { [kind |-> "projects", items |-> <<>>],
      [kind |-> "projects", items |-> <<P1>>],
      [kind |-> "projects", items |-> <<P2, P1>>],
      [kind |-> "other", items |-> <<>>] }

\* bodies of projects/{project_id}/files
FileDocs ==
    { [kind |-> "files", items |-> <<>>],
      [kind |-> "files", items |-> <<F1, F2>>] }

\* bodies of me
UserDocs == { [kind |-> "user", items |-> <<>>] }

\* what the API answers while an export runs: the body asked for, a 429
\* without Retry-After, a 404, or no answer at all
ServerResponses(docs) ==
    OkResponses(docs)
        \cup { HttpResponse(429, FALSE, NoJson, "Rate limit exceeded", NoHeader),
               HttpResponse(404, FALSE, NoJson, "Not found", NoHeader),
               Raised("Connection refused") }

Scripts(docs) == [1..DefaultMaxRetries -> ServerResponses(docs)]

AnyToken == [raised |-> FALSE, token |-> <<"k", "1">>, prompted |-> FALSE]

\* every way get_user_info can end once the token is there
UserOutcomes ==
    { Outcome(figma_api_get(<<"me">>, DefaultMaxRetries, AnyToken, sc)) :
        sc \in Scripts(UserDocs) }

\* every way get_team_projects can end once the token is there
TeamOutcomes ==
    { Outcome(figma_api_get(<<"teams">>, DefaultMaxRetries, AnyToken, sc)) :
        sc \in Scripts(ProjectDocs) }

\* every way get_files can end once the token is there
FileOutcomes ==
    { Outcome(figma_api_get(<<"projects">>, DefaultMaxRetries, AnyToken, sc)) :
        sc \in Scripts(FileDocs) }

(***************************************************************************)
(* get_teams_from_file                                                     *)
(***************************************************************************)
LineSet ==
    { <<"t", "1", "\n">>, <<" ", "t", "2", " ", "\n">>, <<"\n">>,
      <<"#", " ", "c", "\n">> }

RECURSIVE SeqsUpTo(_, _)
\* the sequences over S of length at most n
SeqsUpTo(S, n) ==
    IF n = 0 THEN { <<>> }
    ELSE LET shorter == SeqsUpTo(S, n - 1)
         IN  shorter \cup { Append(q, x) : q \in shorter, x \in S }

NoFile == [exists |-> FALSE, lines |-> <<>>]

FileContents ==
    { NoFile } \cup { [exists |-> TRUE, lines |-> ls] : ls \in SeqsUpTo(LineSet, MaxLines) }

\* a reader that stops after the first line
ReadTeamIds_FirstLineOnly(lines) ==
    IF lines = <<>> THEN <<>> ELSE <<Strip(Head(lines))>>

RECURSIVE ReadTeamIds(_)
\* lines 328-338: strip each line, keep it unless empty or a comment
ReadTeamIds(lines) ==
    IF lines = <<>> THEN <<>>
    ELSE LET team_id == Strip(Head(lines))
         IN  IF team_id # <<>> /\ ~StartsWith(team_id, "#")
             THEN <<team_id>> \o ReadTeamIds(Tail(lines))
             ELSE ReadTeamIds(Tail(lines))

FileNotFoundText == "Team IDs file not found: team_ids"
NoValidIdsText == "No valid team IDs found in team_ids"

\* lines 348-354
NewResults(ids) ==
    [total_teams |-> Len(ids), processed_teams |-> <<>>, successful_teams |-> 0,
     failed_teams |-> 0]

NoResults == NewResults(<<>>)

\* a reader that lets a file without usable lines through
get_teams_from_file_EmptyAccepted(file) ==
    IF ~file.exists
    THEN [error |-> TRUE, message |-> FileNotFoundText, team_ids |-> <<>>,
          results |-> NoResults]
    ELSE [error |-> FALSE, message |-> "", team_ids |-> ReadTeamIds(file.lines),
          results |-> NewResults(ReadTeamIds(file.lines))]

get_teams_from_file(file) ==
    IF ~file.exists
    THEN [error |-> TRUE, message |-> FileNotFoundText, team_ids |-> <<>>,
          results |-> NoResults]
    ELSE IF ReadTeamIds(file.lines) = <<>>
         THEN [error |-> TRUE, message |-> NoValidIdsText, team_ids |-> <<>>,
               results |-> NoResults]
         ELSE [error |-> FALSE, message |-> "", team_ids |-> ReadTeamIds(file.lines),
               results |-> NewResults(ReadTeamIds(file.lines))]

(***************************************************************************)
(* Records the export functions build                                      *)
(***************************************************************************)
\* response.get("projects", []) and response.get("files", [])
GetList(response, key) ==
    IF response.data.kind = key THEN response.data.items ELSE <<>>

\* project.get("name", "Unknown")
GetName(project) == IF project.name = NoName THEN "Unknown" ELSE project.name

\* lines 573-579 and 758-764
ProjectWithFiles(project, files) ==
    [id |-> project.id, name |-> GetName(project), error |-> FALSE, message |-> "",
     files |-> files, file_count |-> Len(files)]

\* a project record that forgets the failed fetch
ProjectWithError_Untagged(project, message) == ProjectWithFiles(project, <<>>)

\* lines 595-603 and 769-777
ProjectWithError(project, message) ==
    [id |-> project.id, name |-> GetName(project), error |-> TRUE,
     message |-> message, files |-> <<>>, file_count |-> 0]

\* the record for one project, from what get_files returned
ProjectRecord(project, files_result) ==
    IF files_result.error
    THEN ProjectWithError(project, files_result.message)
    ELSE ProjectWithFiles(project, GetList(files_result, "files"))

RECURSIVE SumFileCount(_)
\* sum(p.get("file_count", 0) for p in team_projects_with_files)
SumFileCount(ps) ==
    IF ps = <<>> THEN 0 ELSE Head(ps).file_count + SumFileCount(Tail(ps))

\* In the records below a key the code leaves out ("error", "message") is
\* written with the value .get() gives for it: FALSE, "".

\* lines 402-408: team_data of the projects-only export
TeamProjectsData(team_id, listed) ==
    [id |-> team_id, error |-> FALSE, message |-> "", projects |-> listed,
     project_count |-> Len(listed)]

\* lines 431-439: error_data of the projects-only export
ErrorProjectsData(team_id, message) ==
    [id |-> team_id, error |-> TRUE, message |-> message, projects |-> <<>>,
     project_count |-> 0]

\* lines 607-614: team_data of the export with project files
TeamFilesData(team_id, ps) ==
    [id |-> team_id, error |-> FALSE, message |-> "", projects |-> ps,
     project_count |-> Len(ps), total_files |-> SumFileCount(ps)]

\* lines 638-647: error_data of the export with project files
ErrorFilesData(team_id, message) ==
    [id |-> team_id, error |-> TRUE, message |-> message, projects |-> <<>>,
     project_count |-> 0, total_files |-> 0]

\* lines 781-788: team_data of the consolidated export
TeamData(team_id, ps) ==
    [id |-> team_id, status |-> "success", error |-> FALSE, message |-> "",
     projects |-> ps, project_count |-> Len(ps), total_files |-> SumFileCount(ps)]

\* lines 799-808: error_team_data of the consolidated export
ErrorTeamData(team_id, message) ==
    [id |-> team_id, status |-> "error", error |-> TRUE, message |-> message,
     projects |-> <<>>, project_count |-> 0, total_files |-> 0]

\* lines 716-727
NewConsolidated(ids) ==
    [metadata |-> [total_teams |-> Len(ids), successful_teams |-> 0, failed_teams |-> 0,
                   total_projects |-> 0, total_files |-> 0],
     teams |-> <<>>]

NoConsolidated == NewConsolidated(<<>>)

\* consolidated_data["teams"].append(team_data); successful_teams += 1
AddTeam(cd, team_data) ==
    [cd EXCEPT !.teams = Append(@, team_data), !.metadata.successful_teams = @ + 1]

\* an error team counted among the successful ones
AddErrorTeam_CountedSuccessful(cd, error_team_data) ==
    [cd EXCEPT !.teams = Append(@, error_team_data), !.metadata.successful_teams = @ + 1]

\* failed_teams += 1; consolidated_data["teams"].append(error_team_data)
AddErrorTeam(cd, error_team_data) ==
    [cd EXCEPT !.teams = Append(@, error_team_data), !.metadata.failed_teams = @ + 1]

\* consolidated_data["metadata"]["total_projects"] += len(projects)
CountProjects(cd, listed) == [cd EXCEPT !.metadata.total_projects = @ + Len(listed)]

\* a structure whose total_files is never added to
CountFiles_Ignored(cd, files_result) == cd

\* consolidated_data["metadata"]["total_files"] += len(files), on a fetch
\* that succeeded
CountFiles(cd, files_result) ==
    IF files_result.error THEN cd
    ELSE [cd EXCEPT !.metadata.total_files = @ + Len(GetList(files_result, "files"))]

(***************************************************************************)
(* The run: what a function returned, what is on disk                      *)
(***************************************************************************)
NoOutput == [kind |-> "none", prefix |-> "", detail |-> ""]

\* an f-string "<prefix>: <detail>" returned as the function's result
Message(kind, prefix, detail) == [kind |-> kind, prefix |-> prefix, detail |-> detail]

OSErrorText == "[Errno 28] No space left on device"

NameErrorText == "name 'get_teams' is not defined"

\* the names the module binds at top level
ModuleNames ==
    { "LogColors", "ColoredFormatter", "setup_colored_logging", "logger",
      "FIGMA_ACCESS_TOKEN", "get_access_token", "figma_api_get", "get_user_info",
      "get_team_projects", "get_files", "get_pages", "save_teams_to_json",
      "save_team_to_json", "get_teams_from_file", "save_teams_from_file_to_json",
      "save_project_files_to_json", "save_teams_with_project_files_to_json",
      "save_all_data_to_single_json" }

Defined(name) == name \in ModuleNames

File(name, data) == [name |-> name, data |-> data]

\* the path a save function returns, or its "Failed to save ..." string
NoPath == <<>>

Done == pc = "done"

\* whether requests.get has been called once the call with outcome o is over
Requested(o) == http_requested \/ o.requests > 0

\* the function returns msg and the run is over
Finish(msg) ==
    /\ pc' = "done"
    /\ output' = msg

\* an I/O call (os.makedirs, open, json.dump) succeeds, or raises OSError; the
\* model lets at most MaxIOFaults of them fail in one run
IOResults == IF io_faults < MaxIOFaults THEN BOOLEAN ELSE { TRUE }

Faults(oks) == Cardinality({ k \in DOMAIN oks : ~oks[k] })

\* the outcomes of n I/O calls in a row
IOResultsOf(n) ==
    { oks \in [1..n -> BOOLEAN] : io_faults + Faults(oks) <= MaxIOFaults }

(***************************************************************************)
(* __main__                                                                *)
(***************************************************************************)
\* lines 838-847: the entry point picks the export by the file's presence
Main ==
    /\ pc = "main"
    /\ pc' = IF team_ids_file.exists THEN "save_all_data_to_single_json"
             ELSE "save_teams_to_json"
    /\ UNCHANGED <<net_vars, page_vars, clock, output, fs_vars, http_requested, loop_vars,
                   consolidated_data, files_vars>>

(***************************************************************************)
(* save_teams_to_json                                                      *)
(***************************************************************************)
FailedTeamsPrefix == "Failed to save teams data"

\* lines 242-272.  get_teams is called but bound nowhere in the module, so the
\* call raises NameError inside the try block; the branch for a bound get_teams
\* follows the comment on line 243 (it "uses /me endpoint").
save_teams_to_json ==
    /\ pc = "save_teams_to_json"
    /\ IF ~Defined("get_teams")
       THEN /\ Finish(Message("failed", FailedTeamsPrefix, NameErrorText))
            /\ UNCHANGED <<http_requested, output_dir, disk, io_faults>>
       ELSE \E typed \in PromptInputs, o \in UserOutcomes, oks \in IOResultsOf(2) :
              LET tok == get_access_token(env_token, typed)
              IN  IF tok.raised
                  THEN /\ Finish(Message("failed", FailedTeamsPrefix, CredentialErrorText))
                       /\ UNCHANGED <<http_requested, output_dir, disk, io_faults>>
                  ELSE /\ http_requested' = Requested(o)
                       /\ IF o.result.error
                          THEN /\ Finish(Message("error", "Error fetching teams", o.result.message))
                               /\ UNCHANGED <<output_dir, disk, io_faults>>
                          ELSE IF ~oks[1]
                          THEN /\ Finish(Message("failed", FailedTeamsPrefix, OSErrorText))
                               /\ io_faults' = io_faults + 1
                               /\ UNCHANGED <<output_dir, disk>>
                          ELSE IF ~oks[2]
                          THEN /\ Finish(Message("failed", FailedTeamsPrefix, OSErrorText))
                               /\ io_faults' = io_faults + 1
                               /\ output_dir' = TRUE
                               /\ UNCHANGED disk
                          ELSE /\ Finish(Message("saved", "Teams data successfully saved to", "teams"))
                               /\ output_dir' = TRUE
                               /\ disk' = Append(disk, File(<<"teams", clock>>, o.result.data))
                               /\ UNCHANGED io_faults
    /\ UNCHANGED <<net_vars, page_vars, clock, team_ids_file, loop_vars, consolidated_data,
                   results, saved_files, total_projects, total_files>>

(***************************************************************************)
(* save_team_to_json, save_project_files_to_json                           *)
(***************************************************************************)
\* lines 286-306: the path, which ends in the second of the call, when the
\* directory and the file could be written,
\* the "Failed to save team ..." string otherwise
save_team_to_json(team_id, ok) ==
    IF ok THEN [failed |-> FALSE, path |-> <<"team", team_id, clock>>]
    ELSE [failed |-> TRUE, path |-> NoPath]

\* lines 489-509
save_project_files_to_json(project_id, ok) ==
    IF ok THEN [failed |-> FALSE, path |-> <<"project_files", project_id, clock>>]
    ELSE [failed |-> TRUE, path |-> NoPath]

\* the disk after a save that returned `saved`
Written(d, saved, data) ==
    IF saved.failed THEN d ELSE Append(d, File(saved.path, data))

\* saved_files.append(saved_file), under `if not saved_file.startswith("Failed")`
Listed(names, saved) ==
    IF saved.failed THEN names ELSE Append(names, saved.path)

\* lines 420-425 (file_count 0) and 626-632: the summary's entry for a team
\* whose projects were fetched
ProcessedTeam(team_id, project_count, file_count, saved) ==
    [id |-> team_id,
     status |-> IF saved.failed THEN "save_failed" ELSE "success",
     project_count |-> project_count,
     file_count |-> file_count,
     error |-> "",
     file |-> saved.path]

\* lines 445-450 and 653-658: the summary's entry for a team whose project
\* fetch failed
ProcessedErrorTeam(team_id, message, saved) ==
    [id |-> team_id, status |-> "api_error", project_count |-> 0, file_count |-> 0,
     error |-> message, file |-> saved.path]

\* a summary that counts a team as successful whatever became of its file
RecordTeam_AlwaysSuccessful(rs, team_id, project_count, file_count, saved) ==
    [rs EXCEPT !.processed_teams =
                   Append(@, ProcessedTeam(team_id, project_count, file_count, saved)),
               !.successful_teams = @ + 1]

\* a team whose projects were fetched is saved and entered into the summary
RecordTeam(rs, team_id, project_count, file_count, saved) ==
    [rs EXCEPT !.processed_teams =
                   Append(@, ProcessedTeam(team_id, project_count, file_count, saved)),
               !.successful_teams = IF saved.failed THEN @ ELSE @ + 1,
               !.failed_teams = IF saved.failed THEN @ + 1 ELSE @]

\* a summary that leaves a failed fetch out of failed_teams
RecordErrorTeam_Uncounted(rs, team_id, message, saved) ==
    [rs EXCEPT !.processed_teams = Append(@, ProcessedErrorTeam(team_id, message, saved))]

\* a team whose project fetch failed is entered into the summary
RecordErrorTeam(rs, team_id, message, saved) ==
    [rs EXCEPT !.processed_teams = Append(@, ProcessedErrorTeam(team_id, message, saved)),
               !.failed_teams = @ + 1]

ReadErrorPrefix == "Error reading teams from file"

(***************************************************************************)
(* save_teams_from_file_to_json (team -> projects)                         *)
(***************************************************************************)
FailedFromFilePrefix == "Failed to save teams data from file"

\* lines 376-393
save_teams_from_file_to_json ==
    /\ pc = "save_teams_from_file_to_json"
    /\ LET file_data == get_teams_from_file(team_ids_file)
       IN  IF file_data.error
           THEN /\ Finish(Message("error", ReadErrorPrefix, file_data.message))
                /\ UNCHANGED <<output_dir, team_ids, results, io_faults>>
           ELSE \E dir_ok \in IOResults :
                  IF ~dir_ok
                  THEN /\ Finish(Message("failed", FailedFromFilePrefix, OSErrorText))
                       /\ io_faults' = io_faults + 1
                       /\ UNCHANGED <<output_dir, team_ids, results>>
                  ELSE /\ pc' = "teams_only"
                       /\ output_dir' = TRUE
                       /\ team_ids' = file_data.team_ids
                       /\ results' = file_data.results
                       /\ UNCHANGED <<output, io_faults>>
    /\ UNCHANGED <<net_vars, page_vars, clock, team_ids_file, disk, http_requested, i, projects, j,
                   team_projects_with_files, team_response, files_response,
                   consolidated_data, saved_files, total_projects, total_files>>

\* lines 395-450: one team's projects are fetched and the team's file saved
save_teams_NextTeam ==
    /\ pc = "teams_only"
    /\ i < Len(team_ids)
    /\ \E typed \in PromptInputs, o \in TeamOutcomes, ok \in IOResults :
         LET tok       == get_access_token(env_token, typed)
             team_id   == team_ids[i + 1]
             team_data == TeamProjectsData(team_id, GetList(o.result, "projects"))
             err_data  == ErrorProjectsData(team_id, o.result.message)
             saved     == save_team_to_json(team_id, ok)
         IN  IF tok.raised
             THEN /\ Finish(Message("failed", FailedFromFilePrefix, CredentialErrorText))
                  /\ UNCHANGED <<http_requested, i, team_response, disk, results,
                                 saved_files, io_faults>>
             ELSE /\ http_requested' = Requested(o)
                  /\ team_response' = o.result
                  /\ i' = i + 1
                  /\ io_faults' = IF ok THEN io_faults ELSE io_faults + 1
                  /\ saved_files' = Listed(saved_files, saved)
                  /\ UNCHANGED <<pc, output>>
                  /\ IF o.result.error
                     THEN /\ disk' = Written(disk, saved, err_data)
                          /\ results' = RecordErrorTeam(results, team_id, o.result.message, saved)
                     ELSE /\ disk' = Written(disk, saved, team_data)
                          /\ results' = RecordTeam(results, team_id,
                                                   team_data.project_count, 0, saved)
    /\ UNCHANGED <<net_vars, page_vars, clock, team_ids_file, output_dir, team_ids, projects, j,
                   team_projects_with_files, files_response, consolidated_data,
                   total_projects, total_files>>

\* lines 452-470: the run's summary file
save_teams_Summary ==
    /\ pc = "teams_only"
    /\ i = Len(team_ids)
    /\ \E ok \in IOResults :
         IF ok
         THEN /\ disk' = Append(disk, File(<<"teams_summary", clock>>,
                                          [summary |-> results, files_created |-> saved_files]))
              /\ Finish(Message("saved", "Summary saved to", "teams_summary"))
              /\ UNCHANGED io_faults
         ELSE /\ Finish(Message("failed", FailedFromFilePrefix, OSErrorText))
              /\ io_faults' = io_faults + 1
              /\ UNCHANGED disk
    /\ UNCHANGED <<net_vars, page_vars, clock, team_ids_file, output_dir, http_requested, loop_vars,
                   consolidated_data, results, saved_files, total_projects, total_files>>

(***************************************************************************)
(* save_teams_with_project_files_to_json (team -> projects -> files, one   *)
(* file per project and per team)                                          *)
(***************************************************************************)
FailedWithFilesPrefix == "Failed to save teams data with project files from file"

\* lines 524-543
save_teams_with_project_files_to_json ==
    /\ pc = "save_teams_with_project_files_to_json"
    /\ LET file_data == get_teams_from_file(team_ids_file)
       IN  IF file_data.error
           THEN /\ Finish(Message("error", ReadErrorPrefix, file_data.message))
                /\ UNCHANGED <<output_dir, team_ids, results, io_faults>>
           ELSE \E dir_ok \in IOResults :
                  IF ~dir_ok
                  THEN /\ Finish(Message("failed", FailedWithFilesPrefix, OSErrorText))
                       /\ io_faults' = io_faults + 1
                       /\ UNCHANGED <<output_dir, team_ids, results>>
                  ELSE /\ pc' = "with_files_teams"
                       /\ output_dir' = TRUE
                       /\ team_ids' = file_data.team_ids
                       /\ results' = file_data.results
                       /\ UNCHANGED <<output, io_faults>>
    /\ UNCHANGED <<net_vars, page_vars, clock, team_ids_file, disk, http_requested, i, projects, j,
                   team_projects_with_files, team_response, files_response,
                   consolidated_data, saved_files, total_projects, total_files>>

\* lines 545-556 and 633-658: one team's projects are fetched; an error result
\* is saved and recorded, a team without projects is saved at once
with_files_NextTeam ==
    /\ pc = "with_files_teams"
    /\ i < Len(team_ids)
    /\ \E typed \in PromptInputs, o \in TeamOutcomes, ok \in IOResults :
         LET tok       == get_access_token(env_token, typed)
             team_id   == team_ids[i + 1]
             listed    == GetList(o.result, "projects")
             team_data == TeamFilesData(team_id, <<>>)
             err_data  == ErrorFilesData(team_id, o.result.message)
             saved     == save_team_to_json(team_id, ok)
         IN  IF tok.raised
             THEN /\ Finish(Message("failed", FailedWithFilesPrefix, CredentialErrorText))
                  /\ UNCHANGED <<http_requested, loop_vars, disk, results, saved_files,
                                 total_projects, io_faults>>
             ELSE /\ http_requested' = Requested(o)
                  /\ team_response' = o.result
                  /\ UNCHANGED <<output, team_ids, files_response>>
                  /\ IF o.result.error
                     THEN /\ disk' = Written(disk, saved, err_data)
                          /\ saved_files' = Listed(saved_files, saved)
                          /\ results' = RecordErrorTeam(results, team_id, o.result.message, saved)
                          /\ io_faults' = IF ok THEN io_faults ELSE io_faults + 1
                          /\ i' = i + 1
                          /\ UNCHANGED <<pc, projects, j, team_projects_with_files,
                                         total_projects>>
                     ELSE /\ projects' = listed
                          /\ j' = 0
                          /\ team_projects_with_files' = <<>>
                          /\ total_projects' = total_projects + Len(listed)
                          /\ IF listed = <<>>
                             THEN /\ disk' = Written(disk, saved, team_data)
                                  /\ saved_files' = Listed(saved_files, saved)
                                  /\ results' = RecordTeam(results, team_id, 0, 0, saved)
                                  /\ io_faults' = IF ok THEN io_faults ELSE io_faults + 1
                                  /\ i' = i + 1
                                  /\ UNCHANGED pc
                             ELSE /\ ok
                                  /\ pc' = "with_files_projects"
                                  /\ UNCHANGED <<i, disk, saved_files, results, io_faults>>
    /\ UNCHANGED <<net_vars, page_vars, clock, team_ids_file, output_dir, consolidated_data, total_files>>

\* lines 559-632: the files of one project are fetched, its record made and,
\* when the fetch succeeded, saved to a file of its own; after the team's last
\* project the team is saved and recorded
with_files_NextProject ==
    /\ pc = "with_files_projects"
    /\ \E typed \in PromptInputs, o \in FileOutcomes, oks \in IOResultsOf(2) :
         LET tok        == get_access_token(env_token, typed)
             team_id    == team_ids[i + 1]
             project    == projects[j + 1]
             record     == ProjectRecord(project, o.result)
             listed     == Append(team_projects_with_files, record)
             last       == j + 1 = Len(projects)
             saved_p    == save_project_files_to_json(project.id, oks[1])
             disk_p     == IF o.result.error THEN disk
                           ELSE Written(disk, saved_p,
                                        [project |-> record, team_id |-> team_id])
             files_p    == IF o.result.error THEN saved_files
                           ELSE Listed(saved_files, saved_p)
             team_data  == TeamFilesData(team_id, listed)
             saved_t    == save_team_to_json(team_id, oks[2])
         IN  IF tok.raised
             THEN /\ Finish(Message("failed", FailedWithFilesPrefix, CredentialErrorText))
                  /\ UNCHANGED <<http_requested, loop_vars, disk, results, saved_files,
                                 total_files, io_faults>>
             ELSE /\ o.result.error => oks[1]
                  /\ ~last => oks[2]
                  /\ http_requested' = Requested(o)
                  /\ files_response' = o.result
                  /\ team_projects_with_files' = listed
                  /\ j' = j + 1
                  /\ total_files' = IF o.result.error THEN total_files
                                    ELSE total_files + Len(GetList(o.result, "files"))
                  /\ io_faults' = io_faults + Faults(oks)
                  /\ UNCHANGED <<output, team_ids, projects, team_response>>
                  /\ IF last
                     THEN /\ disk' = Written(disk_p, saved_t, team_data)
                          /\ saved_files' = Listed(files_p, saved_t)
                          /\ results' = RecordTeam(results, team_id, team_data.project_count,
                                                   team_data.total_files, saved_t)
                          /\ i' = i + 1
                          /\ pc' = "with_files_teams"
                     ELSE /\ disk' = disk_p
                          /\ saved_files' = files_p
                          /\ UNCHANGED <<results, i, pc>>
    /\ UNCHANGED <<net_vars, page_vars, clock, team_ids_file, output_dir, consolidated_data, total_projects>>

\* lines 660-680: the run's summary file
with_files_Summary ==
    /\ pc = "with_files_teams"
    /\ i = Len(team_ids)
    /\ \E ok \in IOResults :
         IF ok
         THEN /\ disk' = Append(disk, File(<<"teams_with_files_summary", clock>>,
                                          [summary |-> results,
                                           total_projects |-> total_projects,
                                           total_files |-> total_files,
                                           files_created |-> saved_files]))
              /\ Finish(Message("saved", "Summary saved to", "teams_with_files_summary"))
              /\ UNCHANGED io_faults
         ELSE /\ Finish(Message("failed", FailedWithFilesPrefix, OSErrorText))
              /\ io_faults' = io_faults + 1
              /\ UNCHANGED disk
    /\ UNCHANGED <<net_vars, page_vars, clock, team_ids_file, output_dir, http_requested, loop_vars,
                   consolidated_data, results, saved_files, total_projects, total_files>>

(***************************************************************************)
(* save_all_data_to_single_json (team -> projects -> files, one file)      *)
(***************************************************************************)
FailedConsolidatedPrefix == "Failed to save consolidated data"

\* lines 700-727: read the IDs, make the directory, start the structure
save_all_data_to_single_json ==
    /\ pc = "save_all_data_to_single_json"
    /\ LET file_data == get_teams_from_file(team_ids_file)
       IN  IF file_data.error
           THEN /\ Finish(Message("error", ReadErrorPrefix, file_data.message))
                /\ UNCHANGED <<output_dir, team_ids, consolidated_data, io_faults>>
           ELSE \E dir_ok \in IOResults :
                  IF ~dir_ok
                  THEN /\ Finish(Message("failed", FailedConsolidatedPrefix, OSErrorText))
                       /\ io_faults' = io_faults + 1
                       /\ UNCHANGED <<output_dir, team_ids, consolidated_data>>
                  ELSE /\ pc' = "all_teams"
                       /\ output_dir' = TRUE
                       /\ team_ids' = file_data.team_ids
                       /\ consolidated_data' = NewConsolidated(file_data.team_ids)
                       /\ UNCHANGED <<output, io_faults>>
    /\ UNCHANGED <<net_vars, page_vars, clock, team_ids_file, disk, http_requested, i, projects, j,
                   team_projects_with_files, team_response, files_response,
                   results, saved_files, total_projects, total_files>>

\* lines 730-741 and 794-810: one team's projects are fetched; an error result
\* makes the team's error entry, a team without projects is finished at once
save_all_NextTeam ==
    /\ pc = "all_teams"
    /\ i < Len(team_ids)
    /\ \E typed \in PromptInputs, o \in TeamOutcomes :
         LET tok     == get_access_token(env_token, typed)
             team_id == team_ids[i + 1]
             listed  == GetList(o.result, "projects")
             counted == CountProjects(consolidated_data, listed)
         IN  IF tok.raised
             THEN /\ Finish(Message("failed", FailedConsolidatedPrefix, CredentialErrorText))
                  /\ UNCHANGED <<http_requested, loop_vars, consolidated_data>>
             ELSE /\ http_requested' = Requested(o)
                  /\ team_response' = o.result
                  /\ UNCHANGED <<output, team_ids, files_response>>
                  /\ IF o.result.error
                     THEN /\ consolidated_data' =
                                AddErrorTeam(consolidated_data,
                                             ErrorTeamData(team_id, o.result.message))
                          /\ i' = i + 1
                          /\ UNCHANGED <<pc, projects, j, team_projects_with_files>>
                     ELSE /\ projects' = listed
                          /\ j' = 0
                          /\ team_projects_with_files' = <<>>
                          /\ IF listed = <<>>
                             THEN /\ consolidated_data' = AddTeam(counted, TeamData(team_id, <<>>))
                                  /\ i' = i + 1
                                  /\ UNCHANGED pc
                             ELSE /\ consolidated_data' = counted
                                  /\ pc' = "all_projects"
                                  /\ UNCHANGED i
    /\ UNCHANGED <<net_vars, page_vars, clock, fs_vars, files_vars>>

\* lines 744-792: the files of one project are fetched and its record made;
\* after the team's last project the team's entry is added
save_all_NextProject ==
    /\ pc = "all_projects"
    /\ \E typed \in PromptInputs, o \in FileOutcomes :
         LET tok     == get_access_token(env_token, typed)
             project == projects[j + 1]
             counted == CountFiles(consolidated_data, o.result)
             listed  == Append(team_projects_with_files, ProjectRecord(project, o.result))
         IN  IF tok.raised
             THEN /\ Finish(Message("failed", FailedConsolidatedPrefix, CredentialErrorText))
                  /\ UNCHANGED <<http_requested, loop_vars, consolidated_data>>
             ELSE /\ http_requested' = Requested(o)
                  /\ files_response' = o.result
                  /\ team_projects_with_files' = listed
                  /\ j' = j + 1
                  /\ UNCHANGED <<output, team_ids, projects, team_response>>
                  /\ IF j + 1 = Len(projects)
                     THEN /\ consolidated_data' = AddTeam(counted, TeamData(team_ids[i + 1], listed))
                          /\ i' = i + 1
                          /\ pc' = "all_teams"
                     ELSE /\ consolidated_data' = counted
                          /\ UNCHANGED <<i, pc>>
    /\ UNCHANGED <<net_vars, page_vars, clock, fs_vars, files_vars>>

\* lines 812-830: the structure is written to figma_consolidated_data_<epoch>.json
save_all_Write ==
    /\ pc = "all_teams"
    /\ i = Len(team_ids)
    /\ \E ok \in IOResults :
         IF ok
         THEN /\ disk' = Append(disk, File(<<"figma_consolidated_data", clock>>, consolidated_data))
              /\ Finish(Message("saved", "Consolidated data saved to", "figma_consolidated_data"))
              /\ UNCHANGED io_faults
         ELSE /\ Finish(Message("failed", FailedConsolidatedPrefix, OSErrorText))
              /\ io_faults' = io_faults + 1
              /\ UNCHANGED disk
    /\ UNCHANGED <<net_vars, page_vars, clock, team_ids_file, output_dir, http_requested, loop_vars,
                   consolidated_data, results, saved_files, total_projects, total_files>>

(***************************************************************************)
(* Spec: a run of the script; SpecVariants: a call of one of the three     *)
(* export functions that read the team_ids file                            *)
(***************************************************************************)
IdleProgram ==
    /\ clock = 0
    /\ pages_response = NoResult
    /\ pages = <<>>
    /\ output = NoOutput
    /\ output_dir = FALSE
    /\ disk = <<>>
    /\ io_faults = 0
    /\ http_requested = FALSE
    /\ team_ids = <<>>
    /\ i = 0
    /\ projects = <<>>
    /\ j = 0
    /\ team_projects_with_files = <<>>
    /\ team_response = NoResult
    /\ files_response = NoResult
    /\ consolidated_data = NoConsolidated
    /\ results = NoResults
    /\ saved_files = <<>>
    /\ total_projects = 0
    /\ total_files = 0

Init ==
    /\ env_token \in EnvTokens
    /\ call = IdleCall
    /\ pc \in { "main", "save_all_data_to_single_json" }
    /\ team_ids_file \in FileContents
    /\ IdleProgram

Next ==
    \/ Main
    \/ save_teams_to_json
    \/ save_all_data_to_single_json
    \/ save_all_NextTeam
    \/ save_all_NextProject
    \/ save_all_Write

Spec == Init /\ [][Next]_vars

Variants ==
    { "save_teams_from_file_to_json", "save_teams_with_project_files_to_json",
      "save_all_data_to_single_json" }

InitVariants ==
    /\ env_token \in EnvTokens
    /\ call = IdleCall
    /\ pc \in Variants
    /\ team_ids_file \in FileContents
    /\ IdleProgram

NextVariants ==
    \/ save_teams_from_file_to_json
    \/ save_teams_NextTeam
    \/ save_teams_Summary
    \/ save_teams_with_project_files_to_json
    \/ with_files_NextTeam
    \/ with_files_NextProject
    \/ with_files_Summary
    \/ save_all_data_to_single_json
    \/ save_all_NextTeam
    \/ save_all_NextProject
    \/ save_all_Write

SpecVariants == InitVariants /\ [][NextVariants]_vars

(***************************************************************************)
(* SpecTimed: the same calls, with the clock free to reach the next second *)
(* between two steps of a loop (Spec and SpecVariants run within one       *)
(* second)                                                                 *)
(***************************************************************************)
\* time.time() has moved on to the next second
Tick ==
    /\ pc \notin { "done" } \cup Variants
    /\ clock < MaxClock
    /\ clock' = clock + 1
    /\ UNCHANGED <<net_vars, page_vars, pc, output, fs_vars, http_requested, loop_vars,
                   consolidated_data, files_vars>>

NextTimed == NextVariants \/ Tick

SpecTimed == InitVariants /\ [][NextTimed]_vars

(***************************************************************************)
(* SpecParse: one call of get_teams_from_file                              *)
(***************************************************************************)
ParseFiles ==
    { NoFile } \cup { [exists |-> TRUE, lines |-> ls] : ls \in SeqsUpTo(LineSet, MaxParseLines) }

\* lines 308-361: the call returns the error dictionary, or the IDs and the
\* summary that starts the run
GetTeamsFromFile ==
    /\ pc = "get_teams_from_file"
    /\ LET file_data == get_teams_from_file(team_ids_file)
       IN  /\ team_ids' = file_data.team_ids
           /\ results' = file_data.results
           /\ IF file_data.error
              THEN Finish(Message("error", "", file_data.message))
              ELSE Finish(Message("returned", "", ""))
    /\ UNCHANGED <<net_vars, page_vars, clock, fs_vars, http_requested, i, projects, j,
                   team_projects_with_files, team_response, files_response,
                   consolidated_data, saved_files, total_projects, total_files>>

InitParse ==
    /\ env_token \in EnvTokens
    /\ call = IdleCall
    /\ pc = "get_teams_from_file"
    /\ team_ids_file \in ParseFiles
    /\ IdleProgram

NextParse == GetTeamsFromFile

SpecParse == InitParse /\ [][NextParse]_vars

(***************************************************************************)
(* SpecPages: one call of get_pages                                        *)
(***************************************************************************)
NoColor == "None"

\* a node below the top level of a document
Element(id, type) == [id |-> id, type |-> type]

\* a top-level node of a document
Node(id, name, type, children, backgroundColor) ==
    [id |-> id, name |-> name, type |-> type, children |-> children,
     backgroundColor |-> backgroundColor]

\* top-level nodes: pages with and without elements, and a node that is not
\* a page; some hold a CANVAS node of their own
TopNodes ==
    { Node("0:1", "Page 1", "CANVAS", <<>>, "white"),
      Node("0:2", "Page 2", "CANVAS",
           <<Element("1:1", "CANVAS"), Element("1:2", "FRAME")>>, NoColor),
      Node("0:3", "Page 3", "CANVAS", <<Element("1:3", "FRAME")>>, NoColor),
      Node("0:4", "Components", "FRAME", <<Element("1:4", "CANVAS")>>, NoColor) }

\* bodies of files/{file_key}: a document with its children, a body without
\* "document", and the empty object
DocumentDocs ==
    { [kind |-> "document", items |-> cs] : cs \in SeqsUpTo(TopNodes, MaxChildren) }
        \cup { [kind |-> "other", items |-> <<>>], [kind |-> "empty", items |-> <<>>] }

\* the answers to the attempts of one call: any answer to the first, one of
\* the failures to the later ones
FileScripts ==
    { [k \in 1..DefaultMaxRetries |-> IF k = 1 THEN first ELSE later] :
        first \in ServerResponses(DocumentDocs), later \in ServerResponses({}) }

\* every way the fetch of get_pages can end once the token is there
DocumentOutcomes ==
    { Outcome(figma_api_get(<<"files">>, DefaultMaxRetries, AnyToken, sc)) :
        sc \in FileScripts }

\* lines 209-217: the entry of the result list for one page
Page(child) ==
    [id |-> child.id, name |-> child.name, type |-> child.type,
     children_count |-> Len(child.children),
     background_color |-> child.backgroundColor]

\* an extraction that keeps every top-level node
ExtractPages_Unfiltered(children) == [k \in DOMAIN children |-> Page(children[k])]

RECURSIVE ExtractPages(_)
\* lines 207-218: the loop over the document's children
ExtractPages(children) ==
    IF children = <<>> THEN <<>>
    ELSE IF Head(children).type = "CANVAS"
         THEN <<Page(Head(children))>> \o ExtractPages(Tail(children))
         ELSE ExtractPages(Tail(children))

\* `if response`: a dictionary is true unless it is empty
Truthy(r) == r.error \/ r.data.kind # "empty"

\* lines 202-228, after the fetch
get_pages(r) ==
    IF Truthy(r) /\ ~r.error THEN ExtractPages(GetList(r, "document")) ELSE <<>>

\* lines 192-228: one call; a missing credential leaves the function as the
\* ValueError of get_access_token
GetPages ==
    /\ pc = "get_pages"
    /\ \E typed \in PromptInputs, o \in DocumentOutcomes :
         LET tok == get_access_token(env_token, typed)
         IN  IF tok.raised
             THEN /\ pc' = "raised"
                  /\ UNCHANGED <<output, http_requested, page_vars>>
             ELSE /\ Finish(Message("returned", "", ""))
                  /\ http_requested' = Requested(o)
                  /\ pages_response' = o.result
                  /\ pages' = get_pages(o.result)
    /\ UNCHANGED <<net_vars, clock, fs_vars, loop_vars, consolidated_data, files_vars>>

InitPages ==
    /\ env_token \in EnvTokens
    /\ call = IdleCall
    /\ pc = "get_pages"
    /\ team_ids_file = NoFile
    /\ IdleProgram

NextPages == GetPages

SpecPages == InitPages /\ [][NextPages]_vars

(***************************************************************************)
(* SpecFetch: one call of figma_api_get, one attempt per step              *)
(***************************************************************************)
InLoop == call.phase = "loop"

\* token = get_access_token()
FetchEnter ==
    /\ call.phase = "token"
    /\ \E typed \in PromptInputs :
          call' = Enter(call, get_access_token(env_token, typed))
    /\ UNCHANGED <<env_token, program_vars>>

\* the attempt's request is answered 200
FetchOk ==
    /\ InLoop
    /\ \E resp \in OkResponses(SampleDocs) \cup UndecodableResponses :
          call' = Attempt(call, resp)
    /\ UNCHANGED <<env_token, program_vars>>

\* the attempt's request is answered 429
FetchRateLimited ==
    /\ InLoop
    /\ \E resp \in RateLimitResponses : call' = Attempt(call, resp)
    /\ UNCHANGED <<env_token, program_vars>>

\* the attempt's request is answered with any other status
FetchHttpError ==
    /\ InLoop
    /\ \E resp \in ErrorResponses : call' = Attempt(call, resp)
    /\ UNCHANGED <<env_token, program_vars>>

\* requests.get raises
FetchTransportFailure ==
    /\ InLoop
    /\ \E resp \in TransportFailures : call' = Attempt(call, resp)
    /\ UNCHANGED <<env_token, program_vars>>

InitFetch ==
    /\ env_token \in EnvTokens
    /\ \E n \in 0..MaxRetriesBound : call = NewCall(<<"me">>, n)
    /\ pc = "figma_api_get"
    /\ team_ids_file = NoFile
    /\ IdleProgram

NextFetch ==
    \/ FetchEnter
    \/ FetchOk
    \/ FetchRateLimited
    \/ FetchHttpError
    \/ FetchTransportFailure

SpecFetch == InitFetch /\ [][NextFetch]_vars

\* the call is the only thread: every request is answered or raises, every
\* sleep ends, and the next statement is then executed
SpecFetchFair == SpecFetch /\ WF_vars(NextFetch)

(***************************************************************************)
(* Reading the trace of a call                                             *)
(***************************************************************************)
Trace == call.trace

Finished == call.phase = "returned"

\* positions of the requests in the trace
Gets == { k \in DOMAIN Trace : Trace[k].ev = "get" }

LastGet == CHOOSE k \in Gets : \A m \in Gets : m <= k

Is429(k) == Trace[k].resp.kind = "http" /\ Trace[k].resp.status = 429

IsTransport(k) == Trace[k].resp.kind = "exception"

IsOtherStatus(k) ==
    Trace[k].resp.kind = "http" /\ Trace[k].resp.status \notin {200, 429}

\* the seconds a Retry-After header asks for; 60 without one
AskedDelay(h) == IF h.present THEN ParseInt(h.text).value ELSE DefaultRetryAfter

\* the header is absent, or a decimal integer >= 0
UsableDelay(h) == ~h.present \/ (ParseInt(h.text).ok /\ ParseInt(h.text).value >= 0)

GenericError == ErrorResult(0, MaxRetriesExceededText)

(***************************************************************************)
(* Claims about figma_api_get (checked under SpecFetch)                    *)
(***************************************************************************)

\* C1: an attempt answered with a status other than 200 and 429 is the last
\* event of the call, at whatever attempt it comes: the call has returned
\* {error: true, status_code: that status, message: the body text}.
C1_OtherStatusReturnsAtOnce ==
    \A k \in Gets :
        IsOtherStatus(k) =>
            /\ k = Len(Trace)
            /\ Finished
            /\ call.result = ErrorResult(Trace[k].resp.status, Trace[k].resp.text)

\* C1 witness: a 500 on the third attempt, after a 429 and a transport failure
C1_Witness ==
    /\ Finished
    /\ Len(Trace) = 5
    /\ Is429(1) /\ IsTransport(3)
    /\ Trace[5].ev = "get" /\ Trace[5].attempt = 2 /\ Trace[5].resp.status = 500
    /\ call.result.status_code = 500

\* C2 as stated: every 429 is followed by a sleep of the Retry-After value (60
\* without the header) and then by the same request again.
C2_Original ==
    Finished =>
        \A k \in Gets :
            (Is429(k) /\ UsableDelay(Trace[k].resp.retry_after)) =>
                /\ k + 2 <= Len(Trace)
                /\ Trace[k + 1] = SleepEvent(Trace[k].attempt, AskedDelay(Trace[k].resp.retry_after))
                /\ Trace[k + 2].ev = "get"
                /\ Trace[k + 2].endpoint = Trace[k].endpoint

\* C2 amended: a 429 whose Retry-After is absent or a decimal integer >= 0 is
\* followed by a sleep of exactly that many seconds (60 when absent); after it
\* the same request is issued again when an attempt is left, and when the 429
\* came on the last attempt the call returns the generic error with no further
\* request.
C2_SleepThenReissueOrGiveUp ==
    \A k \in Gets :
        (Is429(k) /\ UsableDelay(Trace[k].resp.retry_after)) =>
            /\ k + 1 <= Len(Trace)
            /\ Trace[k + 1] = SleepEvent(Trace[k].attempt, AskedDelay(Trace[k].resp.retry_after))
            /\ IF Trace[k].attempt < call.max_retries - 1
               THEN \/ /\ Len(Trace) = k + 1
                       /\ call.phase = "loop"
                       /\ call.attempt = Trace[k].attempt + 1
                    \/ /\ Len(Trace) >= k + 2
                       /\ Trace[k + 2].ev = "get"
                       /\ Trace[k + 2].endpoint = Trace[k].endpoint
                       /\ Trace[k + 2].token = Trace[k].token
               ELSE /\ Len(Trace) = k + 1
                    /\ Finished
                    /\ call.result = GenericError

\* C2 witness: Retry-After 12 on the first attempt was slept and the request
\* reissued; the last attempt's 429 without a header slept 60 and gave up
C2_Witness ==
    /\ Finished
    /\ call.max_retries = 2
    /\ Len(Trace) = 4
    /\ Is429(1) /\ Trace[2].secs = 12
    /\ Is429(3) /\ Trace[4].secs = DefaultRetryAfter
    /\ call.result = GenericError

\* C3: when every attempt of a call raised a transport exception, the call made
\* exactly max_retries requests, slept 2 seconds after each but the last, and
\* returned {error: true, status_code: 0, message: the last exception's text}.
C3_TransportExhaustion ==
    (Finished /\ Gets # {} /\ \A k \in Gets : IsTransport(k)) =>
        /\ Cardinality(Gets) = call.max_retries
        /\ Len(Trace) = 2 * call.max_retries - 1
        /\ \A a \in 0..(call.max_retries - 1) :
              /\ Trace[2 * a + 1].ev = "get"
              /\ Trace[2 * a + 1].attempt = a
              /\ a < call.max_retries - 1 =>
                    Trace[2 * a + 2] = SleepEvent(a, TransportPause)
        /\ call.result = ErrorResult(0, Trace[Len(Trace)].resp.exc)

\* C3 witness: three failures, the last with a text of its own
C3_Witness ==
    /\ Finished
    /\ call.max_retries = 3
    /\ Cardinality(Gets) = 3
    /\ \A k \in Gets : IsTransport(k)
    /\ Trace[1].resp.exc = "Connection refused"
    /\ call.result.message = "Read timed out"

\* C4 as stated: an attempt answered 200 is the last event of the call, which
\* returned the decoded body.
C4_Original ==
    \A k \in Gets :
        (Trace[k].resp.kind = "http" /\ Trace[k].resp.status = 200) =>
            /\ k = Len(Trace)
            /\ Finished
            /\ ~call.result.error

\* C4 amended: an attempt answered 200 with a body that decodes as JSON is the
\* last event of the call, which returned that body; a 200 whose body does not
\* decode is handled as a raised exception (2 second pause and another attempt,
\* or on the last attempt a status-0 error with the decoder's message).
C4_DecodableOkReturnsBody ==
    \A k \in Gets :
        (Trace[k].resp.kind = "http" /\ Trace[k].resp.status = 200) =>
            IF Trace[k].resp.json_ok
            THEN /\ k = Len(Trace)
                 /\ Finished
                 /\ call.result = Success(Trace[k].resp.json)
            ELSE IF Trace[k].attempt < call.max_retries - 1
                 THEN /\ k + 1 <= Len(Trace)
                      /\ Trace[k + 1] = SleepEvent(Trace[k].attempt, TransportPause)
                 ELSE /\ k = Len(Trace)
                      /\ Finished
                      /\ call.result = ErrorResult(0, JSONDecodeErrorText)

\* C4 witness: the second attempt's 200 returned the projects body
C4_Witness ==
    /\ Finished
    /\ Len(Trace) = 3
    /\ Trace[3].resp.status = 200
    /\ call.result.data.kind = "projects"
    /\ call.result.data.items # <<>>

\* C5 as stated: a 429 does not use up an attempt, so the request that follows
\* a 429 carries the same attempt number.
C5_Original ==
    \A k \in Gets :
        (Is429(k) /\ k + 2 <= Len(Trace)) => Trace[k + 2].attempt = Trace[k].attempt

\* C5 amended: a 429 uses up one of the max_retries attempts like any other
\* outcome: the request after a 429 carries the next attempt number, and the
\* requests of a call, 429s included, number at most max_retries.
C5_RateLimitConsumesAttempt ==
    /\ \A k \in Gets :
          (Is429(k) /\ k + 2 <= Len(Trace)) =>
              /\ Trace[k + 2].ev = "get"
              /\ Trace[k + 2].attempt = Trace[k].attempt + 1
    /\ \A k \in Gets : Trace[k].attempt = Cardinality({ m \in Gets : m < k })
    /\ Cardinality(Gets) <= call.max_retries

\* C5 witness: two 429s then a transport failure on the third and last attempt
C5_Witness ==
    /\ Finished
    /\ call.max_retries = 3
    /\ Len(Trace) = 5
    /\ Is429(1) /\ Is429(3) /\ IsTransport(5)
    /\ call.result = ErrorResult(0, "Connection refused")

\* C6 as stated: the generic error means that all max_retries attempts were
\* answered 429, and a call with a transport exception never ends with it.
C6_Original ==
    /\ (Finished /\ call.result = GenericError) =>
          /\ Cardinality(Gets) = call.max_retries
          /\ \A k \in Gets : Is429(k)
    /\ (Finished /\ \E k \in Gets : IsTransport(k)) => call.result # GenericError

\* C6 amended: the generic error is returned only when the last of the
\* max_retries attempts was answered 429 (or max_retries is 0 and no attempt is
\* made); the attempts before it each ended in a 429 or in a raised exception.
\* A call whose last attempt raised a transport exception does not end with the
\* generic message but with that exception's text.
C6_GenericOnlyAfterFinal429 ==
    /\ (Finished /\ call.result = GenericError) =>
          /\ Cardinality(Gets) = call.max_retries
          /\ call.max_retries > 0 =>
                /\ Is429(LastGet)
                /\ UsableDelay(Trace[LastGet].resp.retry_after)
                /\ Trace[LastGet].attempt = call.max_retries - 1
          /\ \A k \in Gets :
                \/ Is429(k)
                \/ IsTransport(k)
                \/ (Trace[k].resp.status = 200 /\ ~Trace[k].resp.json_ok)
    /\ (Finished /\ Gets # {} /\ IsTransport(LastGet)) =>
          call.result = ErrorResult(0, Trace[LastGet].resp.exc)

\* C6 witness: a transport failure, then two 429s, ends with the generic error
C6_Witness ==
    /\ Finished
    /\ call.max_retries = 3
    /\ IsTransport(1) /\ Is429(3) /\ Is429(5)
    /\ call.result = GenericError

(***************************************************************************)
(* Properties of the export functions                                      *)
(***************************************************************************)
Teams == consolidated_data.teams

Metadata == consolidated_data.metadata

WithStatus(status) == { k \in DOMAIN Teams : Teams[k].status = status }

\* the files on disk that hold a consolidated export
ConsolidatedFiles ==
    { k \in DOMAIN disk : disk[k].name[1] = "figma_consolidated_data" }

\* the last call of get_team_projects returned an error result, and the team
\* loop has moved past that team
TeamFetchFailed == i > 0 /\ team_response.error

\* the last call of get_team_projects succeeded and the loops are through
\* with that team
TeamFetched ==
    /\ i > 0
    /\ team_response # NoResult
    /\ ~team_response.error
    /\ pc \notin { "all_projects", "with_files_projects" }
    /\ j = Len(projects)

\* C7: in save_all_data_to_single_json a team whose project fetch returned an
\* error result gets exactly one entry of the consolidated structure, at the
\* team's position, with status "error", no projects, project_count 0 and the
\* message of the fetch; failed_teams counts exactly the error entries and
\* successful_teams exactly the others; the file written holds that structure.
C7_ErrorTeamEntry ==
    /\ Len(Teams) = i
    /\ \A k \in DOMAIN Teams :
          /\ Teams[k].id = team_ids[k]
          /\ Teams[k].status \in { "error", "success" }
          /\ Teams[k].status = "error" =>
                /\ Teams[k].error
                /\ Teams[k].projects = <<>>
                /\ Teams[k].project_count = 0
                /\ Teams[k].total_files = 0
    /\ TeamFetchFailed =>
          /\ Teams[i].status = "error"
          /\ Teams[i].message = team_response.message
    /\ Metadata.failed_teams = Cardinality(WithStatus("error"))
    /\ Metadata.successful_teams = Cardinality(WithStatus("success"))
    /\ \A k \in ConsolidatedFiles : disk[k].data = consolidated_data

\* C7 witness: the export of a file with one team ID, whose project fetch
\* failed, has been written
C7_Witness ==
    /\ Done
    /\ output.kind = "saved"
    /\ Len(team_ids) = 1
    /\ team_response.error
    /\ ConsolidatedFiles # {}
    /\ Len(disk[1].data.teams) = 1
    /\ disk[1].data.teams[1].status = "error"
    /\ disk[1].data.metadata.successful_teams = 0
    /\ disk[1].data.metadata.failed_teams = 1

\* the team records of the run: the entries of the consolidated structure, or
\* the entries of the summary of the per-team exports
TeamRecords == IF Metadata.total_teams > 0 THEN Teams ELSE results.processed_teams

\* the reasons for which an export function returns before its loop is over
StopReasons == { CredentialErrorText, OSErrorText }

\* C8: in the three export functions a fetch that returned an error result
\* never ends the run (a run ends when the loop is over, on a team_ids file
\* that cannot be used, on a missing credential or on a failed summary or
\* consolidated write); the teams processed so far have one record each, in
\* the order of the input; a team whose projects were fetched has one project
\* record per project, in the order of the response, and is not recorded as a
\* failed fetch; the record of a project whose file fetch returned an error
\* result is error-tagged with the fetch's message and no files.
C8_FailedFetchNeverStopsRun ==
    /\ Done =>
          \/ output.kind = "saved" /\ i = Len(team_ids)
          \/ output.kind = "error" /\ output.prefix = ReadErrorPrefix /\ i = 0
          \/ output.kind = "failed" /\ output.detail \in StopReasons
    /\ Len(TeamRecords) = i
    /\ \A k \in DOMAIN TeamRecords : TeamRecords[k].id = team_ids[k]
    /\ Len(team_projects_with_files) = j
    /\ j <= Len(projects)
    /\ \A k \in DOMAIN team_projects_with_files :
          /\ team_projects_with_files[k].id = projects[k].id
          /\ team_projects_with_files[k].file_count =
                Len(team_projects_with_files[k].files)
    /\ j > 0 =>
          /\ team_projects_with_files[j].error = files_response.error
          /\ files_response.error =>
                /\ team_projects_with_files[j].message = files_response.message
                /\ team_projects_with_files[j].files = <<>>
    /\ TeamFetched =>
          /\ TeamRecords[i].status \in { "success", "save_failed" }
          /\ TeamRecords[i].status = "save_failed" => io_faults > 0
          /\ TeamRecords[i].project_count = Len(GetList(team_response, "projects"))
          /\ Metadata.total_teams > 0 => Teams[i].projects = team_projects_with_files
    /\ TeamFetchFailed =>
          TeamRecords[i].status \in { "error", "api_error" }

\* C8 witness: a run over two team IDs has ended with its summary or export
\* written; the first team's project fetch failed, and the second team's two
\* projects are recorded, the first of them with a failed file fetch
C8_Witness ==
    /\ Done
    /\ output.kind = "saved"
    /\ Len(team_ids) = 2
    /\ TeamRecords[1].status \in { "error", "api_error" }
    /\ TeamRecords[2].status = "success"
    /\ Len(team_projects_with_files) = 2
    /\ team_projects_with_files[1].error
    /\ ~team_projects_with_files[2].error

\* the run is over and what the function returned carries the text of the
\* missing-credential error
CredentialErrorReturned == Done /\ output.detail = CredentialErrorText

\* C9 as claimed: the missing-credential error is never absorbed into a string
\* that an export function returns.
C9_Original == ~CredentialErrorReturned

\* C9 amended: the missing-credential error is raised only when the environment
\* holds no token and the prompt's input is empty after stripping; it is raised
\* before the request of the call that asked for the token, caught by the
\* export function and returned as "Failed to save consolidated data: Figma
\* access token is required to use this script."; the run then ends without a
\* consolidated file, and without any request when the first call raised it.
C9_CredentialErrorReturned ==
    CredentialErrorReturned =>
       /\ env_token = <<>>
       /\ output.kind = "failed"
       /\ output.prefix = FailedConsolidatedPrefix
       /\ disk = <<>>
       /\ i < Len(team_ids) \/ team_ids = <<>>
       /\ (team_response = NoResult) => ~http_requested

\* C9 witness: the first call found no token, and the run ended with the
\* error in the returned string and no request issued
C9_Witness ==
    /\ CredentialErrorReturned
    /\ team_ids # <<>>
    /\ team_response = NoResult
    /\ ~http_requested

\* C10 as claimed: with a token at hand, save_teams_to_json issues a GET to
\* the current-user endpoint.
C10_Claimed ==
    [][(pc = "save_teams_to_json" /\ env_token # <<>>) => http_requested']_vars

(***************************************************************************)
(* Properties of get_teams_from_file                                       *)
(***************************************************************************)
\* a line that names a team: not empty once stripped, and not a comment
Usable(line) == Strip(line) # <<>> /\ Head(Strip(line)) # "#"

\* the positions of the file's usable lines
Kept == { k \in DOMAIN team_ids_file.lines : Usable(team_ids_file.lines[k]) }

\* the position of the n-th usable line
NthKept(n) == CHOOSE k \in Kept : Cardinality({ m \in Kept : m <= k }) = n

\* C11: get_teams_from_file returns exactly the stripped usable lines of the
\* file (non-empty after stripping, not starting with '#'), in file order, and
\* total_teams is their number; it returns the error dictionary exactly when
\* the file is absent or has no usable line.
C11_UsableLinesInFileOrder ==
    Done =>
       /\ output.kind = "error" <=> (~team_ids_file.exists \/ Kept = {})
       /\ output.kind = "returned" =>
             /\ Len(team_ids) = Cardinality(Kept)
             /\ \A n \in DOMAIN team_ids :
                   team_ids[n] = Strip(team_ids_file.lines[NthKept(n)])
             /\ results.total_teams = Len(team_ids)

\* C11 witness: the lines team1, empty, comment, team2 gave [team1, team2]
C11_Witness ==
    /\ Done
    /\ team_ids_file.lines =
          << <<"t", "1", "\n">>, <<"\n">>, <<"#", " ", "c", "\n">>,
             <<" ", "t", "2", " ", "\n">> >>
    /\ team_ids = << <<"t", "1">>, <<"t", "2">> >>
    /\ results.total_teams = 2

\* the team_ids file is absent or has no usable line
UnusableFile == ~team_ids_file.exists \/ Kept = {}

\* C12: when the team_ids file is absent or has no usable line, each of the
\* three export functions returns "Error reading teams from file: ..." with
\* the reader's message, and the run issues no request, makes no output
\* directory and writes no file.
C12_UnusableFileHasNoEffect ==
    UnusableFile =>
       /\ pc \in Variants \cup { "done" }
       /\ ~http_requested
       /\ ~output_dir
       /\ disk = <<>>
       /\ Done =>
             /\ output.kind = "error"
             /\ output.prefix = ReadErrorPrefix
             /\ output.detail = IF team_ids_file.exists THEN NoValidIdsText
                                ELSE FileNotFoundText

\* C12 witness: an export function has returned on a file that holds only a
\* blank line and a comment
C12_Witness ==
    /\ Done
    /\ team_ids_file.exists
    /\ Len(team_ids_file.lines) = 2
    /\ Kept = {}
    /\ output.detail = NoValidIdsText

(***************************************************************************)
(* Properties of the files the per-team exports write                      *)
(***************************************************************************)
Processed == results.processed_teams

\* the teams whose team file was written
WrittenTeams == { k \in DOMAIN Processed : Processed[k].file # NoPath }

\* the names of the files written, in the order of the writes
DiskNames == [k \in DOMAIN disk |-> disk[k].name]

\* the file that ends a run: a summary or the consolidated export
RunFiles == { "teams_summary", "teams_with_files_summary", "figma_consolidated_data" }

\* the names of the team and project files written
EntityNames ==
    IF disk # <<>> /\ disk[Len(disk)].name[1] \in RunFiles
    THEN SubSeq(DiskNames, 1, Len(disk) - 1)
    ELSE DiskNames

\* a step of a team or project loop other than the write that ends the run
SavingStep ==
    \/ pc \in { "teams_only", "with_files_teams" } /\ i < Len(team_ids)
    \/ pc = "with_files_projects"

\* C13 as claimed: a team is counted as successful, with its path in
\* files_created, exactly when its team file was written.
C13_Original ==
    \A k \in DOMAIN Processed :
       (Processed[k].status = "success") <=> (k \in WrittenTeams)

\* C13 amended: a failed save of a team or project file returns a string
\* instead of a path and never ends the run; files_created lists exactly the
\* team and project files written, in the order of the writes; a team whose
\* projects were fetched is counted in successful_teams if and only if its team
\* file was written, and a team whose project fetch failed is never counted in
\* successful_teams, although its error file is written and listed too.
C13_SaveFailureIsRecorded ==
    /\ [](/\ saved_files = EntityNames
          /\ \A k \in DOMAIN Processed :
                /\ Processed[k].status \in { "success", "save_failed", "api_error" }
                /\ Processed[k].status = "success" <=>
                      (Processed[k].error = "" /\ k \in WrittenTeams)
                /\ Processed[k].status = "save_failed" <=>
                      (Processed[k].error = "" /\ k \notin WrittenTeams)
                /\ k \in WrittenTeams =>
                      \E n \in DOMAIN saved_files : saved_files[n] = Processed[k].file
          /\ results.successful_teams =
                Cardinality({ k \in DOMAIN Processed : Processed[k].status = "success" }))
    /\ [][(SavingStep /\ io_faults' > io_faults) => pc' # "done"]_vars

\* C13 witness: the first team's file could not be written, the second team's
\* was, and the run ended with its summary
C13_Witness ==
    /\ Done
    /\ output.kind = "saved"
    /\ Len(Processed) = 2
    /\ Processed[1].status = "save_failed"
    /\ Processed[2].status = "success"
    /\ results.successful_teams = 1
    /\ results.failed_teams = 1
    /\ Len(saved_files) >= 1

\* C14 as claimed: no file is written twice in a run, and files_created names
\* pairwise distinct files.
C14_WriteOnce ==
    /\ \A a, b \in DOMAIN disk : a < b => disk[a].name # disk[b].name
    /\ \A a, b \in DOMAIN saved_files : a < b => saved_files[a] # saved_files[b]

(***************************************************************************)
(* Properties of get_pages                                                 *)
(***************************************************************************)
\* the fetch of get_pages gave a body with a document
Fetched == ~pages_response.error /\ pages_response.data.kind = "document"

\* the top-level children of the fetched document
Children == pages_response.data.items

\* the positions of the top-level children of type CANVAS
Canvases == { k \in DOMAIN Children : Children[k].type = "CANVAS" }

\* the position of the n-th top-level canvas
NthCanvas(n) == CHOOSE k \in Canvases : Cardinality({ m \in Canvases : m <= k }) = n

\* C15: for a fetched document get_pages returns one entry per top-level child
\* of type CANVAS, in the order of the children, with the child's id, name and
\* number of children; nodes below the top level add no entry; a fetch that
\* failed, and a body without a document, give the empty list.
C15_OneEntryPerTopLevelCanvas ==
    pc = "done" =>
       /\ Fetched =>
             /\ Len(pages) = Cardinality(Canvases)
             /\ \A n \in DOMAIN pages :
                   /\ pages[n].id = Children[NthCanvas(n)].id
                   /\ pages[n].name = Children[NthCanvas(n)].name
                   /\ pages[n].type = "CANVAS"
                   /\ pages[n].children_count = Len(Children[NthCanvas(n)].children)
       /\ ~Fetched => pages = <<>>

\* C15 witness: of the three top-level children the first is not a canvas and
\* holds one; the two pages come back in order, the first with two elements
C15_Witness ==
    /\ pc = "done"
    /\ Fetched
    /\ Len(Children) = 3
    /\ Children[1].type = "FRAME"
    /\ Len(pages) = 2
    /\ pages[1].id = "0:2" /\ pages[1].children_count = 2
    /\ pages[2].id = "0:1" /\ pages[2].children_count = 0

(***************************************************************************)
(* Termination of figma_api_get                                            *)
(***************************************************************************)
\* the call has returned a result, or get_access_token has raised
Terminated == call.phase \in { "returned", "raised" }

\* C16: for every max_retries >= 0 and whatever the attempts are answered, a
\* call of figma_api_get issues at most max_retries requests; every attempt
\* either ends the call or moves on to the next attempt number, 429 included,
\* so the call ends; with max_retries = 0 it issues no request and returns
\* the generic status-0 error.
C16_BoundedRequestsThenReturn ==
    /\ [](/\ Cardinality(Gets) <= call.max_retries
          /\ call.attempt <= call.max_retries
          /\ call.phase = "loop" => call.attempt < call.max_retries
          /\ (Finished /\ call.max_retries = 0) =>
                (Gets = {} /\ call.result = GenericError))
    /\ [][call.phase = "loop" =>
             (call'.phase = "returned" \/ call'.attempt = call.attempt + 1)]_vars
    /\ <>Terminated

\* C16 witness: every attempt of a call with the largest budget was answered
\* 429, and the call has returned
C16_Witness ==
    /\ Finished
    /\ call.max_retries = MaxRetriesBound
    /\ Cardinality(Gets) = MaxRetriesBound
    /\ \A k \in Gets : Is429(k)
    /\ call.result = GenericError

(***************************************************************************)
(* The counters of a run                                                   *)
(***************************************************************************)
\* the counters of the run: those of the consolidated structure, or those of
\* the summary of the per-team exports
Counters == IF Metadata.total_teams > 0 THEN Metadata ELSE results

SuccessRecords == { k \in DOMAIN TeamRecords : TeamRecords[k].status = "success" }

\* C17: in the three export functions, after each team successful_teams +
\* failed_teams is the number of team records made so far, every record is
\* counted in exactly one of the two (the successful ones in successful_teams,
\* the others in failed_teams), and when the run ends with its summary or
\* export written the sum is total_teams, the number of IDs read.
C17_CountersPartitionTeams ==
    /\ Counters.successful_teams + Counters.failed_teams = Len(TeamRecords)
    /\ Counters.successful_teams = Cardinality(SuccessRecords)
    /\ Counters.failed_teams = Cardinality(DOMAIN TeamRecords \ SuccessRecords)
    /\ Len(TeamRecords) = i
    /\ Counters.total_teams = Len(team_ids)
    /\ (Done /\ output.kind = "saved") =>
          Counters.successful_teams + Counters.failed_teams = Counters.total_teams

\* C17 witness: a per-team export over two IDs has ended with one successful
\* team and one failed fetch
C17_Witness ==
    /\ Done
    /\ output.kind = "saved"
    /\ results.total_teams = 2
    /\ Processed[1].status = "api_error"
    /\ Processed[2].status = "success"
    /\ results.successful_teams = 1
    /\ results.failed_teams = 1

(***************************************************************************)
(* The totals of the consolidated export                                   *)
(***************************************************************************)
RECURSIVE SumProjectCount(_)
\* the sum of project_count over team entries
SumProjectCount(ts) ==
    IF ts = <<>> THEN 0 ELSE Head(ts).project_count + SumProjectCount(Tail(ts))

RECURSIVE SumTotalFiles(_)
\* the sum of total_files over team entries
SumTotalFiles(ts) ==
    IF ts = <<>> THEN 0 ELSE Head(ts).total_files + SumTotalFiles(Tail(ts))

RECURSIVE SumProjectFiles(_)
\* the sum of file_count over the project records of team entries
SumProjectFiles(ts) ==
    IF ts = <<>> THEN 0
    ELSE SumFileCount(Head(ts).projects) + SumProjectFiles(Tail(ts))

\* the totals of a consolidated structure agree with its team entries
TotalsAgree(cd) ==
    /\ cd.metadata.total_projects = SumProjectCount(cd.teams)
    /\ cd.metadata.total_files = SumTotalFiles(cd.teams)
    /\ cd.metadata.total_files = SumProjectFiles(cd.teams)

\* the project loop of a team has begun and is not over
MidTeam == j < Len(projects)

\* C18: in the consolidated export total_projects is the sum of project_count
\* and total_files the sum of total_files over the team entries, which is the
\* sum of file_count over all project records; error-tagged projects and
\* error-tagged teams add no files, and a project whose file fetch failed is
\* counted in its team's project_count and so in total_projects.  While a
\* team's projects are being fetched the totals are ahead of the entries by
\* that team's projects and files; every file written has totals that agree.
C18_TotalsMatchEntries ==
    /\ ~MidTeam => TotalsAgree(consolidated_data)
    /\ MidTeam =>
          /\ Metadata.total_projects = SumProjectCount(Teams) + Len(projects)
          /\ Metadata.total_files =
                SumTotalFiles(Teams) + SumFileCount(team_projects_with_files)
          /\ SumTotalFiles(Teams) = SumProjectFiles(Teams)
    /\ \A k \in ConsolidatedFiles : TotalsAgree(disk[k].data)
    /\ \A k \in DOMAIN Teams :
          /\ Teams[k].project_count = Len(Teams[k].projects)
          /\ Teams[k].error => (Teams[k].project_count = 0 /\ Teams[k].total_files = 0)
          /\ \A n \in DOMAIN Teams[k].projects :
                Teams[k].projects[n].error => Teams[k].projects[n].file_count = 0

\* C18 witness: the export written holds a failed team and a team of two
\* projects, one with two files and one whose file fetch failed
C18_Witness ==
    /\ Done
    /\ ConsolidatedFiles # {}
    /\ Len(Teams) = 2
    /\ Teams[1].error
    /\ Teams[2].project_count = 2
    /\ Teams[2].projects[1].error
    /\ Teams[2].projects[2].file_count = 2
    /\ disk[1].data.metadata.total_projects = 2
    /\ disk[1].data.metadata.total_files = 2

====
